---------------------------- MODULE Spec2Model ----------------------------
(***************************************************************************)
(* A model of prospyr/connection.py: the process-wide registry of named    *)
(* connections (connect, get), the URL validator (validate_url), the URL   *)
(* joiner (url_join) and the Connection object (construction,              *)
(* build_absolute_url, http_method and the verb attributes).               *)
(*                                                                         *)
(* Text is a sequence of one-character strings, so that parsing, joining,  *)
(* percent-encoding and the regular-expression search are computed on the  *)
(* characters as the code computes them.  A percent escape such as %20 is  *)
(* kept as one element: it holds no delimiter and no letter or digit that  *)
(* any search of the program looks at.                                     *)
(***************************************************************************)
EXTENDS Naturals, Sequences, FiniteSets

(***************************************************************************)
(* Characters.                                                             *)
(***************************************************************************)
Letters ==
    {"a", "b", "c", "d", "e", "f", "g", "h", "i", "j", "k", "l", "m",
     "n", "o", "p", "q", "r", "s", "t", "u", "v", "w", "x", "y", "z"}

Digits ==
    {"0", "1", "2", "3", "4", "5", "6", "7", "8", "9"}

\* The characters urllib.parse.quote never escapes.
Unreserved ==
    Letters \cup Digits \cup {"_", ".", "-", "~"}

\* The characters urlsplit accepts in a scheme.
SchemeChars ==
    Letters \cup Digits \cup {"+", "-", "."}

(***************************************************************************)
(* Sequence helpers.                                                       *)
(***************************************************************************)
\* s[from..], empty when from is past the end (a Python slice s[from-1:]).
Drop(s, from) ==
    IF from > Len(s) THEN << >> ELSE SubSeq(s, from, Len(s))

\* s[..to], (a Python slice s[:to]).
Take(s, to) ==
    IF to <= 0 THEN << >> ELSE SubSeq(s, 1, IF to > Len(s) THEN Len(s) ELSE to)

\* The first index of s holding a character of set cs, or 0 (str.find).
Find(s, cs) ==
    IF \E i \in 1..Len(s) : s[i] \in cs
        THEN CHOOSE i \in 1..Len(s) : s[i] \in cs /\ \A j \in 1..(i - 1) : s[j] \notin cs
        ELSE 0

\* str.startswith('/')
StartsWithSlash(s) ==
    Len(s) > 0 /\ s[1] = "/"

\* str.endswith('/')
EndsWithSlash(s) ==
    Len(s) > 0 /\ s[Len(s)] = "/"

(***************************************************************************)
(* URLObject(url): the url split by urllib's urlsplit into scheme, netloc, *)
(* path and query (no text of the model holds '#', '@' or a port).         *)
(***************************************************************************)
urlsplit(url) ==
    LET colon == Find(url, {":"})
        hasScheme == /\ colon > 1
                     /\ url[1] \in Letters
                     /\ \A i \in 1..(colon - 1) : url[i] \in SchemeChars
        scheme == IF hasScheme THEN Take(url, colon - 1) ELSE << >>
        rest1 == IF hasScheme THEN Drop(url, colon + 1) ELSE url
        hasNetloc == Len(rest1) >= 2 /\ rest1[1] = "/" /\ rest1[2] = "/"
        afterSlashes == Drop(rest1, 3)
        delim == Find(afterSlashes, {"/", "?"})
        netloc == IF ~hasNetloc THEN << >>
                  ELSE IF delim = 0 THEN afterSlashes
                  ELSE Take(afterSlashes, delim - 1)
        rest2 == IF ~hasNetloc THEN rest1
                 ELSE IF delim = 0 THEN << >>
                 ELSE Drop(afterSlashes, delim)
        qmark == Find(rest2, {"?"})
        path == IF qmark = 0 THEN rest2 ELSE Take(rest2, qmark - 1)
        query == IF qmark = 0 THEN << >> ELSE Drop(rest2, qmark + 1)
    IN  [scheme |-> scheme, netloc |-> netloc, path |-> path, query |-> query]

\* urllib's urlunsplit, which URLObject uses to rebuild a url after a
\* component is replaced.  Every scheme of the model uses a netloc.
urlunsplit(parts) ==
    LET path0 == parts.path
        slashed == IF Len(path0) > 0 /\ ~StartsWithSlash(path0)
                       THEN <<"/">> \o path0 ELSE path0
        url1 == IF \/ Len(parts.netloc) > 0
                   \/ (Len(parts.scheme) > 0 /\ ~(Len(path0) >= 2 /\ path0[1] = "/" /\ path0[2] = "/"))
                    THEN <<"/", "/">> \o parts.netloc \o slashed
                    ELSE path0
        url2 == IF Len(parts.scheme) > 0 THEN parts.scheme \o <<":">> \o url1 ELSE url1
    IN  IF Len(parts.query) > 0 THEN url2 \o <<"?">> \o parts.query ELSE url2

\* URLObject.with_path: the url with its path replaced.
with_path(url, path) ==
    urlunsplit([urlsplit(url) EXCEPT !.path = path])

(***************************************************************************)
(* URLPath: percent-encoding and posixpath.join.                           *)
(***************************************************************************)
\* The percent escape of one character.
Escape(ch) ==
    CASE ch = " " -> "%20"
      [] ch = "/" -> "%2F"
      [] ch = "?" -> "%3F"
      [] ch = "=" -> "%3D"
      [] ch = ":" -> "%3A"
      [] OTHER -> "%XX"

\* urlobject's path_encode(string, safe): urllib's quote.
RECURSIVE path_encode(_, _)
path_encode(s, safe) ==
    IF s = << >> THEN << >>
    ELSE LET ch == Head(s)
         IN  <<IF ch \in Unreserved \cup safe THEN ch ELSE Escape(ch)>>
                 \o path_encode(Tail(s), safe)

\* posix_join as it would be without the reset on an absolute path.
posix_join_append(a, p) ==
    IF a = << >> \/ EndsWithSlash(a) THEN a \o p
    ELSE a \o <<"/">> \o p

\* posixpath.join(a, p) for one p.
posix_join(a, p) ==
    IF StartsWithSlash(p) THEN p
    ELSE IF a = << >> \/ EndsWithSlash(a) THEN a \o p
    ELSE a \o <<"/">> \o p

\* URLObject.add_path(path): the path joined on, slashes kept.
add_path(url, path) ==
    with_path(url, posix_join(urlsplit(url).path, path_encode(path, {"/"})))

\* URLObject.add_path_segment(segment): one segment joined on, slashes escaped.
add_path_segment(url, segment) ==
    with_path(url, posix_join(urlsplit(url).path, path_encode(segment, {})))

(***************************************************************************)
(* Text used by the program and by the calls made on it.                   *)
(***************************************************************************)
S_http ==
    <<"h", "t", "t", "p">>

S_https ==
    <<"h", "t", "t", "p", "s">>

S_ftp ==
    <<"f", "t", "p">>

\* connection.py line 15
_default_url ==
    <<"h", "t", "t", "p", "s", ":", "/", "/",
      "a", "p", "i", ".", "p", "r", "o", "s", "p", "e", "r", "w", "o", "r", "k", "s", ".", "c", "o", "m",
      "/", "d", "e", "v", "e", "l", "o", "p", "e", "r", "_", "a", "p", "i", "/">>

\* The default of Connection.__init__'s version parameter.
DefaultVersion ==
    <<"v", "1">>

\* The default of the name parameter of connect and get.
DefaultName ==
    "default"

\* An argument left out of a call: the parameter's default applies.
NoName ==
    "<omitted>"

NoUrl ==
    <<"<omitted>">>

Arg(given, none, default) ==
    IF given = none THEN default ELSE given

(***************************************************************************)
(* Outcomes of a call: a returned value or a raised exception.             *)
(***************************************************************************)
Return(v) ==
    [kind |-> "return", value |-> v]

Raise(exc, msg) ==
    [kind |-> exc, msg |-> msg]

(***************************************************************************)
(* validate_url                                                            *)
(***************************************************************************)
\* URLObject.hostname: the netloc's host, empty when there is none.
hostname(uo) ==
    uo.netloc

\* re.search('/v\d', url)
re_search_version(url) ==
    \E i \in 1..Len(url) :
        /\ i + 2 <= Len(url)
        /\ url[i] = "/"
        /\ url[i + 1] = "v"
        /\ url[i + 2] \in Digits

validate_url(url) ==
    LET uo == urlsplit(url)
    IN  IF uo.scheme = << >> \/ uo.scheme \notin {S_http, S_https}
            THEN Raise("MisconfiguredError", [template |-> "scheme", url |-> url])
        ELSE IF hostname(uo) = << >>
            THEN Raise("MisconfiguredError", [template |-> "hostname", url |-> url])
        ELSE IF re_search_version(url)
            THEN Raise("MisconfiguredError", [template |-> "version", url |-> url])
        ELSE Return(TRUE)

(***************************************************************************)
(* url_join                                                                *)
(***************************************************************************)
\* url_join as it would be if the loop ran to its end, each path joined on
\* the result of the one before.
RECURSIVE url_join_all(_, _)
url_join_all(base, paths) ==
    IF paths = << >>
        THEN base
        ELSE url_join_all(add_path(base, Head(paths)), Tail(paths))

\* The loop over paths returns in its first iteration.
url_join(base, paths) ==
    IF Len(paths) >= 1
        THEN add_path(base, paths[1])
        ELSE base

(***************************************************************************)
(* Connection                                                              *)
(***************************************************************************)
_get_session(email, token) ==
    [headers |-> [application |-> "developer_api",
                  access_token |-> token,
                  user_email |-> email,
                  accept |-> "application/json",
                  content_type |-> "application/json"]]

\* Connection.__init__ as it would be with the version joined on as an
\* absolute path.
Connection_init_reset(url, email, token, version) ==
    [session |-> _get_session(email, token),
     email |-> email,
     base_url |-> url,
     api_url |-> add_path(url, <<"/">> \o version)]

Connection_init(url, email, token, version) ==
    [session |-> _get_session(email, token),
     email |-> email,
     base_url |-> url,
     api_url |-> add_path_segment(url, version)]

build_absolute_url(self, path) ==
    url_join(self.api_url, <<path>>)

\* The operations of the transport's session that getattr(session, method) finds.
SessionMethods ==
    {"get", "post", "put", "patch", "delete", "options", "head"}

\* http_method: what is asked of the session, and what comes back.  The
\* session's answer, response, is the transport's.
http_method(self, method, url, args, response) ==
    IF method \in SessionMethods
        THEN [sent |-> <<[headers |-> self.session.headers, method |-> method,
                          url |-> url, args |-> args]>>,
              result |-> Return(response)]
        ELSE [sent |-> << >>,
              result |-> Raise("AttributeError", [template |-> "session", name |-> method])]

\* The tuple of verbs in Connection.__getattr__.
methods ==
    {"get", "post", "put", "patch", "delete", "options"}

\* __getattr__ as it would be if every verb were bound to http_method as get.
Connection_getattr_get(name) ==
    IF name \in {"get", "post", "put", "patch", "delete", "options"}
        THEN Return([partial |-> "http_method", bound |-> "get"])
        ELSE Raise("AttributeError", [template |-> "attribute", name |-> name])

\* Connection.__getattr__(name): functools.partial(self.http_method, name)
\* for a verb; object has no __getattr__, so anything else raises.
Connection_getattr(name) ==
    IF name \in methods
        THEN Return([partial |-> "http_method", bound |-> name])
        ELSE Raise("AttributeError", [template |-> "attribute", name |-> name])

(***************************************************************************)
(* The calls made on the program: the values its callers pass.             *)
(***************************************************************************)
\* The most url_join is given path arguments.
MaxPaths ==
    2

\* The most Connection objects the threads of ConcSpec construct.
MaxConns ==
    3

Emails ==
    {"a@b.com", "c@d.com"}

Tokens ==
    {"t"}

Names ==
    {DefaultName, "crm"}

Host_x ==
    <<"x", ".", "c">>

Host_v1 ==
    <<"v", "1", ".", "c">>

SchemePrefixes ==
    {<< >>, S_http \o <<":", "/", "/">>, S_https \o <<":", "/", "/">>, S_ftp \o <<":", "/", "/">>}

Hosts ==
    {<< >>, Host_x, Host_v1}

UrlPaths ==
    {<< >>, <<"/">>, <<"/", "a">>, <<"/", "a", "/">>, <<"/", "v", "2", "/">>,
     <<"/", "v", "2", "x">>, <<"/", "a", "v", "1">>, <<"/", "a", "/", "v", "1", "2">>}

Queries ==
    {<< >>, <<"?", "q", "=", "/", "v", "2">>}

\* The urls validate_url is called with.
Urls ==
    {pre \o host \o path \o query :
        pre \in SchemePrefixes, host \in Hosts, path \in UrlPaths, query \in Queries}

Https(rest) ==
    S_https \o <<":", "/", "/">> \o rest

\* The urls connect is called with, besides the default: two it accepts,
\* three it refuses.
ConnectUrls ==
    {Https(Host_x),
     S_http \o <<":", "/", "/">> \o Host_x \o <<"/", "a", "?", "q", "=", "1">>,
     Host_x \o <<"/", "a">>,
     Https(<<"/", "a">>),
     Https(Host_x \o <<"/", "v", "2", "/">>)}

\* The bases url_join is called with.
JoinBases ==
    {Https(Host_x),
     Https(Host_x \o <<"/", "v", "1">>),
     Https(Host_x \o <<"/", "v", "1", "/">>),
     S_http \o <<":", "/", "/">> \o Host_x \o <<"/", "a", "/", "v", "1", "?", "q", "=", "1">>}

\* The paths url_join and build_absolute_url are called with.
PathArgs ==
    {<< >>, <<"w">>, <<"/", "w">>, <<"w", "/", "1">>, <<"a", " ", "b">>,
     <<"/", "w", "?", "p", "=", "1">>}

\* The paths url_join is given when it is given several.
ListArgs ==
    {<<"w">>, <<"/", "w">>, <<"a", " ", "b">>}

\* The path arguments of one call of url_join: none, one, or several.
PathLists ==
    {<< >>} \cup {<<p>> : p \in PathArgs} \cup UNION {[1..n -> ListArgs] : n \in 2..MaxPaths}

\* The requests made through a Connection: a url and the further arguments.
Requests ==
    {[url |-> Https(Host_x \o <<"/", "v", "1", "/", "w">>), args |-> << >>],
     [url |-> <<"/", "w">>, args |-> <<"json">>]}

\* What the transport answers.
Responses ==
    {"r200", "r404"}

\* The methods http_method is called with: two the session has, one it has not.
MethodArgs ==
    {"get", "head", "trace"}

\* The attributes asked of a Connection that it does not define itself.
AttrNames ==
    methods \cup {"head", "resources"}

(***************************************************************************)
(* State.                                                                  *)
(***************************************************************************)
VARIABLES
    _connections,   \* the registry: connection name -> Connection (line 14)
    conns,          \* the Connection objects constructed so far; an object's
                    \* identity is its index
    call,           \* the latest call made on the module and its outcome
    pc,             \* ConcSpec: each thread's position in connect
    frame,          \* ConcSpec: each thread's arguments and locals in connect
    stores,         \* ConcSpec: how many times line 37 has run
    overlap         \* ConcSpec: whether two connect calls were ever in progress at once

vars ==
    <<_connections, conns, call, pc, frame, stores, overlap>>

Threads ==
    {"T1", "T2"}

\* A thread's frame in connect: the arguments, the local conn, and what the
\* call has done so far: whether the name was registered when line 27 looked,
\* which run of line 37 was this call's (0: none yet), and the outcome.
NoFrame ==
    [email |-> "", token |-> "", url |-> << >>, name |-> "", registered |-> FALSE,
     conn |-> 0, stored |-> 0, result |-> [kind |-> "none"]]

Init ==
    /\ _connections = << >>
    /\ conns = << >>
    /\ call = [op |-> "none"]
    /\ pc = [t \in Threads |-> "idle"]
    /\ frame = [t \in Threads |-> NoFrame]
    /\ stores = 0
    /\ overlap = FALSE

ConcVars ==
    <<pc, frame, stores, overlap>>

(***************************************************************************)
(* connect and get, each call run from start to end.                       *)
(***************************************************************************)
\* The error of lines 29-32: the name is taken; existing is the Connection that has it.
already_connected(name, existing) ==
    Raise("ValueError",
          [template |-> "already_connected", name |-> name, email |-> existing.email])

\* The store as it would be if it kept an entry already there (setdefault).
store_if_absent(reg, name, conn) ==
    [n \in DOMAIN reg \cup {name} |-> IF n \in DOMAIN reg THEN reg[n] ELSE conn]

\* _connections[name] = conn (line 37)
store(reg, name, conn) ==
    [n \in DOMAIN reg \cup {name} |-> IF n = name THEN conn ELSE reg[n]]

\* connect as it would be without the check of lines 27-32.
connect_overwrite(reg, objs, email, token, url, name) ==
    IF validate_url(url).kind # "return"
        THEN [reg |-> reg, objs |-> objs, result |-> validate_url(url)]
    ELSE [reg |-> [n \in DOMAIN reg \cup {name} |->
                      IF n = name THEN Len(objs) + 1 ELSE reg[n]],
          objs |-> Append(objs, Connection_init(url, email, token, DefaultVersion)),
          result |-> Return(Len(objs) + 1)]

\* connect as it would be with the url validated before the name is checked.
connect_validate_first(reg, objs, email, token, url, name) ==
    IF validate_url(url).kind # "return"
        THEN [reg |-> reg, objs |-> objs, result |-> validate_url(url)]
    ELSE IF name \in DOMAIN reg
        THEN [reg |-> reg, objs |-> objs,
              result |-> Raise("ValueError",
                               [template |-> "already_connected", name |-> name,
                                email |-> objs[reg[name]].email])]
    ELSE [reg |-> [n \in DOMAIN reg \cup {name} |->
                      IF n = name THEN Len(objs) + 1 ELSE reg[n]],
          objs |-> Append(objs, Connection_init(url, email, token, DefaultVersion)),
          result |-> Return(Len(objs) + 1)]

\* connect as it would be with the Connection stored before the url is validated.
connect_store_first(reg, objs, email, token, url, name) ==
    IF name \in DOMAIN reg
        THEN [reg |-> reg, objs |-> objs,
              result |-> Raise("ValueError",
                               [template |-> "already_connected", name |-> name,
                                email |-> objs[reg[name]].email])]
    ELSE [reg |-> [n \in DOMAIN reg \cup {name} |->
                      IF n = name THEN Len(objs) + 1 ELSE reg[n]],
          objs |-> Append(objs, Connection_init(url, email, token, DefaultVersion)),
          result |-> IF validate_url(url).kind # "return"
                         THEN validate_url(url) ELSE Return(Len(objs) + 1)]

\* connect(email, token, url, name): the registry, the objects and the outcome after it.
connect(reg, objs, email, token, url, name) ==
    IF name \in DOMAIN reg
        THEN [reg |-> reg, objs |-> objs,
              result |-> already_connected(name, objs[reg[name]])]
    ELSE IF validate_url(url).kind # "return"
        THEN [reg |-> reg, objs |-> objs, result |-> validate_url(url)]
    ELSE LET conn == Len(objs) + 1
         IN  [reg |-> store(reg, name, conn),
              objs |-> Append(objs, Connection_init(url, email, token, DefaultVersion)),
              result |-> Return(conn)]

\* get as it would be with the test of line 51 inverted.
get_swapped(reg, name) ==
    IF name \in DOMAIN reg
        THEN Return(reg[name])
    ELSE IF name # DefaultName
        THEN Raise("MisconfiguredError", [template |-> "no_default"])
    ELSE Raise("MisconfiguredError", [template |-> "no_named", name |-> name])

\* get(name): the outcome.
get(reg, name) ==
    IF name \in DOMAIN reg
        THEN Return(reg[name])
    ELSE IF name = DefaultName
        THEN Raise("MisconfiguredError", [template |-> "no_default"])
    ELSE Raise("MisconfiguredError", [template |-> "no_named", name |-> name])

Connect(email, token, url, name) ==
    LET out == connect(_connections, conns, email, token,
                       Arg(url, NoUrl, _default_url), Arg(name, NoName, DefaultName))
    IN  /\ _connections' = out.reg
        /\ conns' = out.objs
        /\ call' = [op |-> "connect", email |-> email, token |-> token, url |-> url,
                    name |-> name, result |-> out.result]
        /\ UNCHANGED ConcVars

Get(name) ==
    /\ call' = [op |-> "get", name |-> name,
                result |-> get(_connections, Arg(name, NoName, DefaultName))]
    /\ UNCHANGED <<_connections, conns>>
    /\ UNCHANGED ConcVars

(***************************************************************************)
(* The module's functions and the methods of a Connection.                 *)
(***************************************************************************)
ValidateUrl(url) ==
    /\ call' = [op |-> "validate_url", url |-> url, result |-> validate_url(url)]
    /\ UNCHANGED <<_connections, conns>>
    /\ UNCHANGED ConcVars

UrlJoin(base, paths) ==
    /\ call' = [op |-> "url_join", base |-> base, paths |-> paths,
                result |-> Return(url_join(base, paths))]
    /\ UNCHANGED <<_connections, conns>>
    /\ UNCHANGED ConcVars

BuildAbsoluteUrl(c, path) ==
    /\ c \in 1..Len(conns)
    /\ call' = [op |-> "build_absolute_url", conn |-> c, path |-> path,
                result |-> Return(build_absolute_url(conns[c], path))]
    /\ UNCHANGED <<_connections, conns>>
    /\ UNCHANGED ConcVars

\* conn.http_method(method, url, *args)
HttpMethod(c, method, url, args, response) ==
    /\ c \in 1..Len(conns)
    /\ LET out == http_method(conns[c], method, url, args, response)
       IN  call' = [op |-> "http_method", conn |-> c, method |-> method, url |-> url,
                    args |-> args, response |-> response,
                    sent |-> out.sent, result |-> out.result]
    /\ UNCHANGED <<_connections, conns>>
    /\ UNCHANGED ConcVars

\* conn.<name>(url, *args): the attribute is looked up, through __getattr__
\* as no attribute of AttrNames is defined on a Connection, and what it
\* gives is called.
Attribute(c, name, url, args, response) ==
    /\ c \in 1..Len(conns)
    /\ LET attr == Connection_getattr(name)
           out == IF attr.kind = "return"
                      THEN http_method(conns[c], attr.value.bound, url, args, response)
                      ELSE [sent |-> << >>, result |-> attr]
       IN  call' = [op |-> "attribute", conn |-> c, name |-> name, url |-> url,
                    args |-> args, response |-> response,
                    sent |-> out.sent, result |-> out.result]
    /\ UNCHANGED <<_connections, conns>>
    /\ UNCHANGED ConcVars

Next ==
    \/ \E email \in Emails, token \in Tokens, url \in ConnectUrls \cup {NoUrl},
          name \in Names \cup {NoName} :
            Connect(email, token, url, name)
    \/ \E name \in Names \cup {NoName, "erp"} : Get(name)
    \/ \E c \in 1..Len(conns), path \in PathArgs : BuildAbsoluteUrl(c, path)
    \/ \E c \in 1..Len(conns), method \in MethodArgs, req \in Requests,
          response \in Responses :
            HttpMethod(c, method, req.url, req.args, response)
    \/ \E c \in 1..Len(conns), name \in AttrNames, req \in Requests,
          response \in Responses :
            Attribute(c, name, req.url, req.args, response)

Spec ==
    Init /\ [][Next]_vars

\* The urls the connection of PureSpec is made with.
PureConnectUrls ==
    {NoUrl, S_http \o <<":", "/", "/">> \o Host_x \o <<"/", "a", "?", "q", "=", "1">>}

\* validate_url and url_join called on their own, on every input, and
\* url_join called through build_absolute_url on the default connection.
PureNext ==
    \/ \E url \in Urls : ValidateUrl(url)
    \/ \E base \in JoinBases, paths \in PathLists : UrlJoin(base, paths)
    \/ \E url \in PureConnectUrls : Connect("a@b.com", "t", url, NoName)
    \/ \E c \in 1..Len(conns), path \in PathArgs : BuildAbsoluteUrl(c, path)

PureSpec ==
    Init /\ [][PureNext]_vars

(***************************************************************************)
(* connect run by threads.  Nothing in connect holds a lock, so the        *)
(* interpreter may switch threads between any two of its lines; each       *)
(* action below is one line of one thread's call.                          *)
(***************************************************************************)
\* The urls the threads connect with: one connect accepts, one it refuses.
ThreadUrls ==
    {Https(Host_x), Host_x \o <<"/", "a">>}

InConnect(t) ==
    pc[t] # "idle"

\* A thread calls connect (line 18).
CBegin(t, email, token, url, name) ==
    /\ pc[t] = "idle"
    /\ Len(conns) + Cardinality({u \in Threads : InConnect(u)}) < MaxConns
    /\ pc' = [pc EXCEPT ![t] = "check"]
    /\ frame' = [frame EXCEPT ![t] = [NoFrame EXCEPT !.email = email, !.token = token,
                                                     !.url = url, !.name = name]]
    /\ overlap' = (overlap \/ \E u \in Threads \ {t} : InConnect(u))
    /\ UNCHANGED <<_connections, conns, call, stores>>

\* if name in _connections: raise ValueError (lines 27-32)
CCheck(t) ==
    /\ pc[t] = "check"
    /\ LET f == frame[t]
           taken == f.name \in DOMAIN _connections
       IN  IF taken
               THEN /\ frame' = [frame EXCEPT ![t].registered = TRUE,
                                    ![t].result = already_connected(f.name, conns[_connections[f.name]])]
                    /\ pc' = [pc EXCEPT ![t] = "idle"]
               ELSE /\ frame' = [frame EXCEPT ![t].registered = FALSE]
                    /\ pc' = [pc EXCEPT ![t] = "validate"]
    /\ UNCHANGED <<_connections, conns, call, stores, overlap>>

\* validate_url(url) (line 34)
CValidate(t) ==
    /\ pc[t] = "validate"
    /\ LET v == validate_url(frame[t].url)
       IN  IF v.kind # "return"
               THEN /\ frame' = [frame EXCEPT ![t].result = v]
                    /\ pc' = [pc EXCEPT ![t] = "idle"]
               ELSE /\ frame' = frame
                    /\ pc' = [pc EXCEPT ![t] = "construct"]
    /\ UNCHANGED <<_connections, conns, call, stores, overlap>>

\* conn = Connection(url, email, token) (line 36)
CConstruct(t) ==
    /\ pc[t] = "construct"
    /\ LET f == frame[t]
       IN  conns' = Append(conns, Connection_init(f.url, f.email, f.token, DefaultVersion))
    /\ frame' = [frame EXCEPT ![t].conn = Len(conns) + 1]
    /\ pc' = [pc EXCEPT ![t] = "store"]
    /\ UNCHANGED <<_connections, call, stores, overlap>>

\* _connections[name] = conn; return conn (lines 37-38)
CStore(t) ==
    /\ pc[t] = "store"
    /\ _connections' = store(_connections, frame[t].name, frame[t].conn)
    /\ stores' = stores + 1
    /\ frame' = [frame EXCEPT ![t].stored = stores + 1,
                              ![t].result = Return(frame[t].conn)]
    /\ pc' = [pc EXCEPT ![t] = "idle"]
    /\ UNCHANGED <<conns, call, overlap>>

ConcNext ==
    \E t \in Threads :
        \/ \E email \in Emails, token \in Tokens, url \in ThreadUrls, name \in Names :
               CBegin(t, email, token, url, name)
        \/ CCheck(t)
        \/ CValidate(t)
        \/ CConstruct(t)
        \/ CStore(t)

ConcSpec ==
    Init /\ [][ConcNext]_vars

(***************************************************************************)
(* Properties.                                                             *)
(***************************************************************************)
\* The name a call uses when it is given name, or none.
NameUsed(name) ==
    IF name = NoName THEN "default" ELSE name

\* The url a call of connect uses when it is given url, or none.
UrlUsed(url) ==
    IF url = NoUrl THEN _default_url ELSE url

\* No name leaves the registry or is bound to another object in this step.
RegistryKept ==
    \A n \in DOMAIN _connections :
        n \in DOMAIN _connections' /\ _connections'[n] = _connections[n]

\* No Connection object is lost or changed in this step.
ObjectsKept ==
    /\ Len(conns') >= Len(conns)
    /\ \A c \in 1..Len(conns) : conns'[c] = conns[c]

\* A path split at its slashes.
RECURSIVE SplitSlash(_)
SplitSlash(s) ==
    LET i == Find(s, {"/"})
    IN  IF i = 0 THEN <<s>> ELSE <<Take(s, i - 1)>> \o SplitSlash(Drop(s, i + 1))

\* The segments of a path: what lies between its slashes, after the leading one.
Segments(path) ==
    LET parts == SplitSlash(path)
    IN  IF parts[1] = << >> THEN Tail(parts) ELSE parts

\* The segments without the empty one a trailing slash leaves.
Stem(segs) ==
    IF segs # << >> /\ segs[Len(segs)] = << >>
        THEN SubSeq(segs, 1, Len(segs) - 1)
        ELSE segs

\* C1: under serialized calls the registry only grows and keeps identity: no
\* step removes a name or binds it to another Connection; a connect that
\* returns a Connection leaves the name it used bound to that very object;
\* a get of a registered name returns the object the name is bound to; and
\* a call given no name uses "default".
C1_RegistryGrowOnly ==
    [][/\ RegistryKept
       /\ (call'.op = "connect" /\ call'.result.kind = "return") =>
              /\ NameUsed(call'.name) \in DOMAIN _connections'
              /\ _connections'[NameUsed(call'.name)] = call'.result.value
       /\ (call'.op = "get" /\ NameUsed(call'.name) \in DOMAIN _connections) =>
              /\ call'.result.kind = "return"
              /\ call'.result.value = _connections[NameUsed(call'.name)]
              /\ _connections'[NameUsed(call'.name)] = call'.result.value
      ]_vars

\* C1 witness: two names are registered, by connects given different
\* accounts, and a get given no name has returned the default Connection.
C1_Witness ==
    /\ call.op = "get"
    /\ call.name = NoName
    /\ call.result.kind = "return"
    /\ DOMAIN _connections = {"default", "crm"}
    /\ call.result.value = _connections["default"]
    /\ conns[_connections["default"]].email # conns[_connections["crm"]].email

\* C2: a connect on a name that is registered raises ValueError whatever the
\* url, its message carries the email of the Connection that has the name,
\* and neither the registry nor any Connection changes.
C2_DuplicateRefused ==
    [][(call'.op = "connect" /\ NameUsed(call'.name) \in DOMAIN _connections) =>
          /\ call'.result.kind = "ValueError"
          /\ call'.result.msg.email = conns[_connections[NameUsed(call'.name)]].email
          /\ (call'.email # conns[_connections[NameUsed(call'.name)]].email
                 => call'.result.msg.email # call'.email)
          /\ _connections' = _connections
          /\ conns' = conns
      ]_vars

\* C2 witness: a connect with another account and a url validate_url refuses
\* was made on a registered name and raised ValueError.
C2_Witness ==
    /\ call.op = "connect"
    /\ call.result.kind = "ValueError"
    /\ NameUsed(call.name) \in DOMAIN _connections
    /\ call.email # conns[_connections[NameUsed(call.name)]].email
    /\ validate_url(UrlUsed(call.url)).kind # "return"

\* C3: a connect on an unregistered name with a url validate_url refuses
\* raises MisconfiguredError and stores nothing, so that get of the name
\* still fails; a connect on an unregistered name with a url validate_url
\* accepts returns a Connection, now bound to the name.
C3_InvalidUrlStoresNothing ==
    [][(call'.op = "connect" /\ NameUsed(call'.name) \notin DOMAIN _connections) =>
          IF validate_url(UrlUsed(call'.url)).kind # "return"
              THEN /\ call'.result.kind = "MisconfiguredError"
                   /\ call'.result = validate_url(UrlUsed(call'.url))
                   /\ _connections' = _connections
                   /\ conns' = conns
                   /\ get(_connections', NameUsed(call'.name)).kind = "MisconfiguredError"
              ELSE /\ call'.result.kind = "return"
                   /\ NameUsed(call'.name) \in DOMAIN _connections'
                   /\ _connections'[NameUsed(call'.name)] = call'.result.value
                   /\ conns'[call'.result.value].base_url = UrlUsed(call'.url)
      ]_vars

\* C3 witness: a connect raised MisconfiguredError, its name is still
\* unregistered, and another name is registered.
C3_Witness ==
    /\ call.op = "connect"
    /\ call.result.kind = "MisconfiguredError"
    /\ NameUsed(call.name) \notin DOMAIN _connections
    /\ DOMAIN _connections # {}

\* C4: get raises MisconfiguredError exactly when the name is not
\* registered, with the fixed message for "default" and a message that
\* echoes the name otherwise; get changes neither the registry nor any
\* Connection.
C4_GetFailsIffUnregistered ==
    [][call'.op = "get" =>
          /\ (call'.result.kind # "return") <=> (NameUsed(call'.name) \notin DOMAIN _connections)
          /\ call'.result.kind \in {"return", "MisconfiguredError"}
          /\ call'.result.kind = "MisconfiguredError" =>
                 IF NameUsed(call'.name) = "default"
                     THEN call'.result.msg = [template |-> "no_default"]
                     ELSE call'.result.msg = [template |-> "no_named", name |-> call'.name]
          /\ _connections' = _connections
          /\ conns' = conns
      ]_vars

\* C4 witness: with a Connection registered, a get of a name that is neither
\* registered nor "default" has failed, echoing the name.
C4_Witness ==
    /\ call.op = "get"
    /\ call.name = "erp"
    /\ call.result.kind = "MisconfiguredError"
    /\ call.result.msg.name = "erp"
    /\ DOMAIN _connections # {}

\* What the validator is said to accept: a scheme of http or https, a
\* hostname, and no '/v<digit>' in the path.
SaidValid(url) ==
    LET uo == urlsplit(url)
    IN  /\ uo.scheme \in {S_http, S_https}
        /\ uo.netloc # << >>
        /\ ~(\E i \in 1..Len(uo.path) :
                /\ i + 2 <= Len(uo.path)
                /\ uo.path[i] = "/" /\ uo.path[i + 1] = "v" /\ uo.path[i + 2] \in Digits)

\* C5: validate_url returns True exactly when the scheme is http or https, a
\* hostname is present and the path holds no version-like segment; a url
\* with such a scheme and a hostname is refused only for its path, never for
\* its hostname or its query.
C5_ValidateIffShape ==
    call.op = "validate_url" =>
        ((call.result.kind = "return") <=> SaidValid(call.url))

\* The api_url of every Connection is its base_url with one more path
\* segment, the version "v1", and the same scheme, host and query.
C6_ApiUrlShape ==
    \A c \in 1..Len(conns) :
        LET b == urlsplit(conns[c].base_url)
            a == urlsplit(conns[c].api_url)
        IN  /\ a.scheme = b.scheme
            /\ a.netloc = b.netloc
            /\ a.query = b.query
            /\ Segments(a.path) = Stem(Segments(b.path)) \o <<DefaultVersion>>

\* C6: in every reachable state the api_url of every Connection is its
\* base_url with exactly one more path segment, the version "v1"; and no
\* call changes the email, base_url, api_url or session of a Connection.
C6_ApiUrlFixed ==
    []C6_ApiUrlShape /\ [][ObjectsKept]_vars

\* C6 witness: a Connection whose base_url has a path and a query lies in
\* the registry with another, and build_absolute_url has been called on it.
C6_Witness ==
    /\ call.op = "build_absolute_url"
    /\ Len(conns) = 2
    /\ urlsplit(conns[call.conn].base_url).query # << >>
    /\ urlsplit(conns[call.conn].base_url).path # << >>

\* The result of a join keeps the scheme and host of the base, and its path
\* is seg alone when seg begins with "/", and otherwise the path of the base
\* followed by seg, a "/" between them where one is needed.
Joined(base, seg, result) ==
    LET b == urlsplit(base)
        r == urlsplit(result)
    IN  /\ r.scheme = b.scheme
        /\ r.netloc = b.netloc
        /\ IF StartsWithSlash(seg)
               THEN r.path = seg
               ELSE r.path = b.path \o seg \/ r.path = b.path \o <<"/">> \o seg

\* C7 as it is stated: url_join with one path p resets the path to p when p
\* begins with "/" and appends p otherwise, p taken as it is given; with no
\* path it returns the base; build_absolute_url(path) is url_join(api_url,
\* path).
C7_JoinAsGiven ==
    /\ (call.op = "url_join" /\ Len(call.paths) = 0) =>
           call.result.value = call.base
    /\ (call.op = "url_join" /\ Len(call.paths) = 1) =>
           Joined(call.base, call.paths[1], call.result.value)
    /\ call.op = "build_absolute_url" =>
           /\ call.result.value = url_join(conns[call.conn].api_url, <<call.path>>)
           /\ Joined(conns[call.conn].api_url, call.path, call.result.value)

\* What url_join and build_absolute_url return, for the path percent-encoded.
C7_Results ==
    /\ (call.op = "url_join" /\ Len(call.paths) = 0) =>
           call.result.value = call.base
    /\ (call.op = "url_join" /\ Len(call.paths) = 1) =>
           Joined(call.base, path_encode(call.paths[1], {"/"}), call.result.value)
    /\ call.op = "build_absolute_url" =>
           /\ call.result.value = url_join(conns[call.conn].api_url, <<call.path>>)
           /\ Joined(conns[call.conn].api_url, path_encode(call.path, {"/"}),
                     call.result.value)

\* C7, amended: url_join with one path p, p percent-encoded but for its
\* slashes, resets the path of the base to it when p begins with "/" and
\* appends it to the path of the base otherwise; with no path it returns the
\* base; build_absolute_url(path) is url_join(api_url, path) and changes no
\* Connection.
C7_JoinEncoded ==
    []C7_Results /\ [][call'.op \in {"url_join", "build_absolute_url"} => conns' = conns]_vars

\* C7 witness: build_absolute_url was called with a path that begins with
\* "/" and holds characters that are escaped, on a Connection whose api_url
\* has a longer path.
C7_Witness ==
    /\ call.op = "build_absolute_url"
    /\ StartsWithSlash(call.path)
    /\ path_encode(call.path, {"/"}) # call.path
    /\ urlsplit(call.result.value).path = path_encode(call.path, {"/"})
    /\ Len(Segments(urlsplit(conns[call.conn].api_url).path)) = 2

\* C8: conn.<verb>(url, args) for each of the six verbs asks the session for
\* that verb once, with the url and the arguments as given, and returns the
\* session's response, as conn.http_method(verb, url, args) does; any other
\* undefined attribute raises AttributeError and asks nothing of the
\* session; neither changes the registry or a Connection.
C8_VerbDispatch ==
    [][/\ call'.op = "attribute" =>
              /\ IF call'.name \in {"get", "post", "put", "patch", "delete", "options"}
                     THEN /\ Len(call'.sent) = 1
                          /\ call'.sent[1].method = call'.name
                          /\ call'.sent[1].url = call'.url
                          /\ call'.sent[1].args = call'.args
                          /\ call'.sent[1].headers.user_email = conns[call'.conn].email
                          /\ call'.result = Return(call'.response)
                          /\ LET direct == http_method(conns[call'.conn], call'.name,
                                                       call'.url, call'.args, call'.response)
                             IN  direct.sent = call'.sent /\ direct.result = call'.result
                     ELSE /\ call'.sent = << >>
                          /\ call'.result.kind = "AttributeError"
              /\ _connections' = _connections
              /\ conns' = conns
       /\ call'.op = "http_method" =>
              /\ call'.method \in {"get", "post", "put", "patch", "delete", "options"} =>
                     /\ Len(call'.sent) = 1
                     /\ call'.sent[1].method = call'.method
                     /\ call'.sent[1].url = call'.url
                     /\ call'.sent[1].args = call'.args
                     /\ call'.result = Return(call'.response)
              /\ _connections' = _connections
              /\ conns' = conns
      ]_vars

\* C8 witness: conn.delete was called with a further argument and returned
\* the session's response.
C8_Witness ==
    /\ call.op = "attribute"
    /\ call.name = "delete"
    /\ call.args # << >>
    /\ call.result = Return("r404")
    /\ Len(call.sent) = 1

Raced(t1, t2) ==
    /\ t1 # t2
    /\ pc[t1] = "idle" /\ pc[t2] = "idle"
    /\ frame[t1].result.kind # "none" /\ frame[t2].result.kind # "none"
    /\ frame[t1].name = frame[t2].name
    /\ validate_url(frame[t1].url).kind = "return"
    /\ validate_url(frame[t2].url).kind = "return"
    /\ ~frame[t1].registered /\ ~frame[t2].registered

\* C10: when two connects on a name both pass the check of line 27 before
\* either stores, both return a Connection, the two are different objects,
\* and the registry holds the one stored last; when no two connects were
\* ever in progress at once, that does not happen and each name has had at
\* most one successful connect.
C10_CheckThenStoreRace ==
    /\ \A t1 \in Threads, t2 \in Threads :
           (Raced(t1, t2) /\ frame[t1].stored <= frame[t2].stored) =>
               /\ frame[t1].result.kind = "return"
               /\ frame[t2].result.kind = "return"
               /\ frame[t1].stored >= 1
               /\ frame[t1].stored < frame[t2].stored
               /\ frame[t1].result.value # frame[t2].result.value
               /\ _connections[frame[t1].name] = frame[t2].result.value
               /\ _connections[frame[t1].name] # frame[t1].result.value
    /\ ~overlap =>
           /\ \A t1 \in Threads, t2 \in Threads : ~Raced(t1, t2)
           /\ stores = Cardinality(DOMAIN _connections)

\* C10 witness: two threads connected the same name with different
\* accounts, both got a Connection, and the registry holds the second's.
C10_Witness ==
    \E t1 \in Threads, t2 \in Threads :
        /\ Raced(t1, t2)
        /\ frame[t1].stored < frame[t2].stored
        /\ frame[t1].email # frame[t2].email
        /\ frame[t1].result.kind = "return"
        /\ conns[_connections[frame[t1].name]].email = frame[t2].email
        /\ stores > Cardinality(DOMAIN _connections)

=============================================================================
